---- MODULE Spec2Model ----
(***************************************************************************)
(* Model of the admin console of liquid-core (src/liquidcore/site/admin.py):*)
(* the app-permission filter and summary, the user-creation forms and the  *)
(* invitation admin.  Python strings that the code takes apart or builds   *)
(* are sequences of one-character strings.                                 *)
(***************************************************************************)
EXTENDS Integers, Sequences, FiniteSets, TLC

VARIABLES LIQUID_APPS, LIQUID_2FA, group_permissions, users, invitation, resp

vars == <<LIQUID_APPS, LIQUID_2FA, group_permissions, users, invitation, resp>>

\* ------------------------------------------------------------------ bounds
MaxApps == 3

\* ----------------------------------------------------------------- strings
use_ == <<"u", "s", "e", "_">>

home_use_ == <<"h", "o", "m", "e", ".">> \o use_

hoover == <<"h", "o", "o", "v", "e", "r">>

matrix == <<"m", "a", "t", "r", "i", "x">>

wiki == <<"w", "i", "k", "i">>

\* the app ids of the configuration; like the deployed ids they hold no '.'
AppIds == {hoover, matrix, wiki}

\* position of the first sep in s at or after i, Len(s) + 1 when there is none
RECURSIVE find(_, _, _)
find(s, sep, i) ==
    IF i > Len(s) THEN Len(s) + 1
    ELSE IF s[i] = sep THEN i
    ELSE find(s, sep, i + 1)

\* str.split(sep): the pieces of s between the occurrences of sep
RECURSIVE split(_, _)
split(s, sep) ==
    LET k == find(s, sep, 1)
    IN  IF k > Len(s) THEN <<s>>
        ELSE <<SubSeq(s, 1, k - 1)>> \o split(SubSeq(s, k + 1, Len(s)), sep)

\* the set of the elements of a list
Elems(l) == {l[i] : i \in DOMAIN l}

\* the orders in which the elements of a set may be iterated
Orders(S) ==
    {l \in [1..Cardinality(S) -> S] : \A i, j \in 1..Cardinality(S) : l[i] = l[j] => i = j}

\* -------------------------------------------------- settings.LIQUID_APPS
AppDescriptor == [id : AppIds, enabled : BOOLEAN, adminOnly : BOOLEAN]

Catalogs ==
    {c \in UNION {[1..n -> AppDescriptor] : n \in 0..MaxApps} :
        \A i, j \in DOMAIN c : c[i].id = c[j].id => i = j}

\* ---------------------------------------------- auth.Permission table rows
Permission ==
    {[app_label |-> <<"h", "o", "m", "e">>, codename |-> use_ \o id] : id \in AppIds}
    \cup {[app_label |-> <<"a", "u", "t", "h">>,
           codename |-> <<"a", "d", "d", "_", "u", "s", "e", "r">>]}

\* "<app_label>.<codename>", the form in which get_group_permissions reports
perm_string(p) == p.app_label \o <<".">> \o p.codename

\* --------------------------------------------------- _filter_permissions
enabled_ids_not_admin_only(apps) ==
    LET E == SelectSeq(apps, LAMBDA app : app.enabled /\ ~app.adminOnly)
    IN  [i \in DOMAIN E |-> E[i].id]

enabled_ids(apps) ==
    LET E == SelectSeq(apps, LAMBDA app : app.enabled)
    IN  [i \in DOMAIN E |-> E[i].id]

assignableCodenames(apps) ==
    LET ids == enabled_ids(apps)
    IN  [i \in DOMAIN ids |-> use_ \o ids[i]]

_filter_permissions(qs, apps) ==
    {p \in qs : p.codename \in Elems(assignableCodenames(apps))}

\* ------------------------------------------------------- all_permissions
all_permissions_enabled(apps) ==
    LET E == SelectSeq(apps, LAMBDA app : app.enabled)
    IN  {home_use_ \o E[i].id : i \in DOMAIN E}

all_permissions(apps) ==
    LET E == SelectSeq(apps, LAMBDA app : app.enabled /\ ~app.adminOnly)
    IN  {home_use_ \o E[i].id : i \in DOMAIN E}

\* --------------------------------------------------------- auth.Group rows
Group == {[name |-> "analysts"]}

\* ------------------------- PermissionFilterMixin.formfield_for_manytomany
\* the many-to-many fields of the two models and the model each points to
m2m_fields(admin) ==
    IF admin = "HooverUserAdmin" THEN {"groups", "user_permissions"} ELSE {"permissions"}

remote_objects(name) == IF name = "groups" THEN Group ELSE Permission

\* kwargs is a function from the keyword names that were passed
KwargsFor(name) ==
    {[k \in {} |-> {}]} \cup {[k \in {"queryset"} |-> qs] : qs \in SUBSET remote_objects(name)}

kwargs_get(kwargs, key, default) == IF key \in DOMAIN kwargs THEN kwargs[key] ELSE default

formfield_for_manytomany_permissions_only(name, kwargs, apps) ==
    IF name \in {"permissions"}
    THEN [k \in DOMAIN kwargs \cup {"queryset"} |->
             IF k = "queryset"
             THEN _filter_permissions(kwargs_get(kwargs, "queryset", remote_objects(name)), apps)
             ELSE kwargs[k]]
    ELSE kwargs

\* the kwargs the mixin hands to the parent class
formfield_for_manytomany(name, kwargs, apps) ==
    IF name \in {"permissions", "user_permissions"}
    THEN [k \in DOMAIN kwargs \cup {"queryset"} |->
             IF k = "queryset"
             THEN _filter_permissions(kwargs_get(kwargs, "queryset", remote_objects(name)), apps)
             ELSE kwargs[k]]
    ELSE kwargs

FormfieldForManyToMany ==
    /\ \E admin \in {"HooverUserAdmin", "HooverGroupAdmin"} :
       \E name \in m2m_fields(admin) :
       \E kwargs \in KwargsFor(name) :
          resp' = [op |-> "formfield_for_manytomany",
                   admin |-> admin,
                   name |-> name,
                   kwargs |-> kwargs,
                   codenames |-> assignableCodenames(LIQUID_APPS),
                   super_kwargs |-> formfield_for_manytomany(name, kwargs, LIQUID_APPS)]
    /\ UNCHANGED <<LIQUID_APPS, LIQUID_2FA, group_permissions, users, invitation>>

\* ------------------------------------ HooverUserAdmin row of one user
\* the permissions the user has through the group, as "<app_label>.<codename>";
\* the user is an active member of the group and not a superuser
get_group_permissions == {perm_string(p) : p \in group_permissions}

app_permissions_from_groups_superset(perm_set, apps) ==
    IF perm_set \subseteq all_permissions(apps)
    THEN {[t |-> "str", v |-> "All app permissions."]}
    ELSE IF perm_set # {}
    THEN {[t |-> "list", v |-> [i \in DOMAIN o |-> split(o[i], ".")[2]]] :
             o \in Orders({perm \in perm_set : perm \in all_permissions(apps)})}
    ELSE {[t |-> "str", v |-> "-"]}

app_permissions_from_groups_nonempty(perm_set, apps) ==
    IF all_permissions(apps) # {} /\ all_permissions(apps) \subseteq perm_set
    THEN {[t |-> "str", v |-> "All app permissions."]}
    ELSE IF perm_set # {}
    THEN {[t |-> "list", v |-> [i \in DOMAIN o |-> split(o[i], ".")[2]]] :
             o \in Orders({perm \in perm_set : perm \in all_permissions(apps)})}
    ELSE {[t |-> "str", v |-> "-"]}

\* the values app_permissions_from_groups may return for perm_set: the list
\* is built by iterating a set, so every order is a possible result
app_permissions_from_groups(perm_set, apps) ==
    IF all_permissions(apps) \subseteq perm_set
    THEN {[t |-> "str", v |-> "All app permissions."]}
    ELSE IF perm_set # {}
    THEN {[t |-> "list", v |-> [i \in DOMAIN o |-> split(o[i], ".")[2]]] :
             o \in Orders({perm \in perm_set : perm \in all_permissions(apps)})}
    ELSE {[t |-> "str", v |-> "-"]}

NoResp == [op |-> "none"]

UserRow ==
    /\ \E r \in app_permissions_from_groups(get_group_permissions, LIQUID_APPS) :
          resp' = [op |-> "user_row",
                   perm_set |-> get_group_permissions,
                   all_permissions |-> all_permissions(LIQUID_APPS),
                   app_permissions_from_groups |-> r]
    /\ UNCHANGED <<LIQUID_APPS, LIQUID_2FA, group_permissions, users, invitation>>

\* ------------------------------------ HooverGroupAdmin row of the group
list_display == {"name", "group_app_permissions"}

group_app_permissions_qualified(perms) ==
    {[i \in DOMAIN o |-> perm_string(o[i])] : o \in Orders(perms)}

\* the codenames of the group's permissions, in the order the query gives
group_app_permissions(perms) ==
    {[i \in DOMAIN o |-> o[i].codename] : o \in Orders(perms)}

GroupRow ==
    /\ \E l \in group_app_permissions(group_permissions) :
          resp' = [op |-> "group_row",
                   row |-> [c \in list_display |->
                              IF c = "name"
                              THEN [t |-> "str", v |-> "analysts"]
                              ELSE [t |-> "list", v |-> l]]]
    /\ UNCHANGED <<LIQUID_APPS, LIQUID_2FA, group_permissions, users, invitation>>

\* ------------------------------------------------- user creation forms
None == "None"

Usernames == {"alice", "bob"}

Passwords == {"pw1", "pw2"}

\* a submitted add-user form; "" is a field left out or left blank
PostData == [username : Usernames \cup {""},
             password1 : Passwords \cup {""},
             password2 : Passwords \cup {""}]

get_form_always_2fa(obj, two_factor) ==
    IF obj = None THEN "Hoover2FAUserCreationForm" ELSE "UserChangeForm"

\* HooverUserAdmin.get_form: the form class the view uses
get_form(obj, two_factor) ==
    IF obj = None
    THEN IF two_factor THEN "Hoover2FAUserCreationForm" ELSE "HooverUserCreationForm"
    ELSE "UserChangeForm"

\* HooverUserAdmin.add_fieldsets: the fields the add view asks for
add_fieldsets(two_factor) ==
    IF two_factor THEN {"username"} ELSE {"username", "password1", "password2"}

username_errors(data, existing) ==
    IF data.username = "" THEN {"username: required"}
    ELSE IF \E u \in existing : u.username = data.username THEN {"username: exists"}
    ELSE {}

\* Hoover2FAUserCreationForm: a ModelForm over the username alone
Hoover2FAUserCreationForm_errors(data, existing) == username_errors(data, existing)

\* Hoover2FAUserCreationForm.save
Hoover2FAUserCreationForm_save(data) ==
    [username |-> data.username, usable_password |-> FALSE, password |-> "!"]

\* HooverUserCreationForm adds nothing to the validation of UserCreationForm:
\* both password fields are required and must be equal
HooverUserCreationForm_errors(data, existing) ==
    username_errors(data, existing)
    \cup (IF data.password1 = "" THEN {"password1: required"} ELSE {})
    \cup (IF data.password2 = "" THEN {"password2: required"} ELSE {})
    \cup (IF data.password1 # "" /\ data.password2 # "" /\ data.password1 # data.password2
          THEN {"password2: mismatch"} ELSE {})

HooverUserCreationForm_save(data) ==
    [username |-> data.username, usable_password |-> TRUE, password |-> data.password1]

\* GET of a user form: the add view (obj = None) or the change view
GetForm ==
    /\ \E obj \in {None} \cup {u.username : u \in users} :
          resp' = [op |-> "get_form",
                   obj |-> obj,
                   form |-> get_form(obj, LIQUID_2FA),
                   fields |-> IF obj = None THEN add_fieldsets(LIQUID_2FA) ELSE {}]
    /\ UNCHANGED <<LIQUID_APPS, LIQUID_2FA, group_permissions, users, invitation>>

\* POST of the add view: get_form(obj = None), validation, save
AddUser ==
    \E data \in PostData :
       LET form == get_form(None, LIQUID_2FA)
           errors == IF form = "Hoover2FAUserCreationForm"
                     THEN Hoover2FAUserCreationForm_errors(data, users)
                     ELSE HooverUserCreationForm_errors(data, users)
           user == IF form = "Hoover2FAUserCreationForm"
                   THEN Hoover2FAUserCreationForm_save(data)
                   ELSE HooverUserCreationForm_save(data)
       IN  /\ users' = IF errors = {} THEN users \cup {user} ELSE users
           /\ resp' = [op |-> "add_user",
                       form |-> form,
                       fields |-> add_fieldsets(LIQUID_2FA),
                       data |-> data,
                       errors |-> errors,
                       users_before |-> users]
           /\ UNCHANGED <<LIQUID_APPS, LIQUID_2FA, group_permissions, invitation>>

\* -------------------------------------------------------- InvitationAdmin
SecondsPerMinute == 60

MaxExpires == 130

MaxNow == 2

MaxDrift == 61

InvitationState == {"valid", "used"}

InvitationPerms == {"add_invitation", "change_invitation", "delete_invitation"}

\* the staff user of a request; obj is <<>> for None, else <<the invitation>>
Requests == [is_superuser : BOOLEAN, perms : SUBSET InvitationPerms]

has_add_permission_default(request, obj) ==
    request.is_superuser \/ "add_invitation" \in request.perms

has_add_permission(request, obj) == FALSE

has_delete_permission(request, obj) == TRUE

\* not overridden by InvitationAdmin: ModelAdmin's check of the change permission
has_change_permission(request, obj) ==
    request.is_superuser \/ "change_invitation" \in request.perms

HasPermission ==
    /\ \E request \in Requests :
       \E obj \in {<<>>, <<invitation>>} :
       \E action \in {"add", "change", "delete"} :
          resp' = [op |-> "has_permission",
                   action |-> action,
                   request |-> request,
                   obj |-> obj,
                   allowed |-> CASE action = "add" -> has_add_permission(request, obj)
                                 [] action = "change" -> has_change_permission(request, obj)
                                 [] OTHER -> has_delete_permission(request, obj)]
    /\ UNCHANGED <<LIQUID_APPS, LIQUID_2FA, group_permissions, users, invitation>>

\* str(n) of an integer
digit(d) ==
    CASE d = 0 -> "0" [] d = 1 -> "1" [] d = 2 -> "2" [] d = 3 -> "3" [] d = 4 -> "4"
      [] d = 5 -> "5" [] d = 6 -> "6" [] d = 7 -> "7" [] d = 8 -> "8" [] OTHER -> "9"

RECURSIVE digits(_)
digits(n) == IF n < 10 THEN <<digit(n)>> ELSE digits(n \div 10) \o <<digit(n % 10)>>

str(n) == IF n < 0 THEN <<"-">> \o digits(-n) ELSE digits(n)

\* int(x / y) of Python: the quotient rounded towards zero
int_div(x, y) == IF x >= 0 THEN x \div y ELSE -((-x) \div y)

\* time_left, with the values its two calls of now() return
time_left(inv, now1, now2) ==
    IF inv.expires < now1
    THEN <<>>
    ELSE LET minutes_left == int_div(inv.expires - now2, SecondsPerMinute)
         IN  str(minutes_left) \o <<" ", "m", "i", "n">>

\* the list column: now1 and now2 are what the two calls of now() return;
\* the clock does not go back between them
TimeLeft ==
    /\ \E now1 \in 0..MaxNow :
       \E drift \in 0..MaxDrift :
          resp' = [op |-> "time_left",
                   now1 |-> now1,
                   now2 |-> now1 + drift,
                   out |-> time_left(invitation, now1, now1 + drift)]
    /\ UNCHANGED <<LIQUID_APPS, LIQUID_2FA, group_permissions, users, invitation>>

\* --------------------------------------------------------- specifications
NoInvitation == [expires |-> 0, state |-> "valid"]

\* the summary rows of the user and group lists
Init ==
    /\ LIQUID_APPS \in Catalogs
    /\ LIQUID_2FA = FALSE
    /\ group_permissions \in SUBSET Permission
    /\ users = {}
    /\ invitation = NoInvitation
    /\ resp = NoResp

Next ==
    \/ UserRow
    \/ GroupRow

Spec == Init /\ [][Next]_vars

\* the permission widget of the user and group forms
InitFilter ==
    /\ LIQUID_APPS \in Catalogs
    /\ LIQUID_2FA = FALSE
    /\ group_permissions = {}
    /\ users = {}
    /\ invitation = NoInvitation
    /\ resp = NoResp

NextFilter == FormfieldForManyToMany

SpecFilter == InitFilter /\ [][NextFilter]_vars

\* user creation
InitCreate ==
    /\ LIQUID_APPS = <<>>
    /\ LIQUID_2FA \in BOOLEAN
    /\ group_permissions = {}
    /\ users = {}
    /\ invitation = NoInvitation
    /\ resp = NoResp

NextCreate ==
    \/ GetForm
    \/ AddUser

SpecCreate == InitCreate /\ [][NextCreate]_vars

\* the permissions of the invitation admin
InitInvitation ==
    /\ LIQUID_APPS = <<>>
    /\ LIQUID_2FA = TRUE
    /\ group_permissions = {}
    /\ users = {}
    /\ invitation \in [expires : 0..MaxNow + 1, state : InvitationState]
    /\ resp = NoResp

NextInvitation == HasPermission

SpecInvitation == InitInvitation /\ [][NextInvitation]_vars

\* the time-left column of the invitation list
InitTime ==
    /\ LIQUID_APPS = <<>>
    /\ LIQUID_2FA = TRUE
    /\ group_permissions = {}
    /\ users = {}
    /\ invitation \in [expires : 0..MaxExpires, state : {"valid"}]
    /\ resp = NoResp

NextTime == TimeLeft

SpecTime == InitTime /\ [][NextTime]_vars

\* ------------------------------------------------------------- properties
\* the sets the specification defines over a catalog C
classifiablePermissions(C) ==
    {home_use_ \o C[i].id : i \in {j \in DOMAIN C : C[j].enabled /\ ~C[j].adminOnly}}

enabledCodenames(C) == {use_ \o C[i].id : i \in {j \in DOMAIN C : C[j].enabled}}

\* C with the adminOnly flag of its i-th app flipped
flipAdminOnly(C, i) == [C EXCEPT ![i].adminOnly = ~C[i].adminOnly]

All == [t |-> "str", v |-> "All app permissions."]

Dash == [t |-> "str", v |-> "-"]

Is(r, label) == r.t = label.t /\ r.v = label.v

\* C1: the user row reports 'All app permissions.' if and only if every
\* classifiable permission of the catalog is in the granted set, whatever
\* else the granted set holds.
C1_AllIffUniverseGranted ==
    resp.op = "user_row" =>
        (Is(resp.app_permissions_from_groups, All)
            <=> classifiablePermissions(LIQUID_APPS) \subseteq resp.perm_set)

C1_Witness ==
    /\ resp.op = "user_row"
    /\ Is(resp.app_permissions_from_groups, All)
    /\ classifiablePermissions(LIQUID_APPS) # {}
    /\ resp.perm_set \ classifiablePermissions(LIQUID_APPS) # {}

\* C2: when some classifiable permission is not granted, the user row shows
\* '-' exactly when no granted permission is classifiable, and otherwise the
\* list of the bare codenames of exactly the granted classifiable permissions.
C2_NoneIffIntersectionEmpty ==
    (resp.op = "user_row" /\ ~(classifiablePermissions(LIQUID_APPS) \subseteq resp.perm_set)) =>
        LET r == resp.app_permissions_from_groups
            granted == {i \in DOMAIN LIQUID_APPS :
                           /\ LIQUID_APPS[i].enabled
                           /\ ~LIQUID_APPS[i].adminOnly
                           /\ home_use_ \o LIQUID_APPS[i].id \in resp.perm_set}
        IN  IF granted = {}
            THEN Is(r, Dash)
            ELSE /\ r.t = "list"
                 /\ Elems(r.v) = {use_ \o LIQUID_APPS[i].id : i \in granted}
                 /\ Len(r.v) = Cardinality(granted)

\* C3 as stated: with an empty classifiable universe the user row shows '-'.
C3_EmptyUniverseIsNone ==
    (resp.op = "user_row" /\ classifiablePermissions(LIQUID_APPS) = {}) =>
        Is(resp.app_permissions_from_groups, Dash)

\* C3 as amended: with an empty classifiable universe there is no special
\* case, the user row shows 'All app permissions.' for every granted set,
\* the empty one included.
C3_EmptyUniverseIsAll ==
    (resp.op = "user_row" /\ classifiablePermissions(LIQUID_APPS) = {}) =>
        Is(resp.app_permissions_from_groups, All)

C3_Witness ==
    /\ resp.op = "user_row"
    /\ LIQUID_APPS # <<>>
    /\ classifiablePermissions(LIQUID_APPS) = {}
    /\ resp.perm_set = {}
    /\ Is(resp.app_permissions_from_groups, All)

\* C5: the universe the user row compares against is exactly the qualified
\* permissions of the apps that are enabled and not admin-only; it holds no
\* permission of an admin-only app or of a disabled app.
C5_UniverseIsEnabledNonAdmin ==
    resp.op = "user_row" =>
        /\ resp.all_permissions = classifiablePermissions(LIQUID_APPS)
        /\ \A i \in DOMAIN LIQUID_APPS :
              (LIQUID_APPS[i].adminOnly \/ ~LIQUID_APPS[i].enabled)
                  => home_use_ \o LIQUID_APPS[i].id \notin resp.all_permissions

C5_Witness ==
    /\ resp.op = "user_row"
    /\ \E i, j, k \in DOMAIN LIQUID_APPS :
          /\ LIQUID_APPS[i].enabled /\ LIQUID_APPS[i].adminOnly
          /\ ~LIQUID_APPS[j].enabled /\ ~LIQUID_APPS[j].adminOnly
          /\ LIQUID_APPS[k].enabled /\ ~LIQUID_APPS[k].adminOnly
    /\ Cardinality(resp.all_permissions) = 1

\* C9 as stated: the group row shows the group's codenames and, in some
\* column, the classification of the group's own grants.
C9_GroupRowHasSummary ==
    resp.op = "group_row" =>
        /\ Elems(resp.row["group_app_permissions"].v) = {p.codename : p \in group_permissions}
        /\ \E c \in DOMAIN resp.row :
           \E r \in app_permissions_from_groups(get_group_permissions, LIQUID_APPS) :
              Is(resp.row[c], r)

\* C9 as amended: the group row has two columns, the group's name and the
\* list of the codenames of the group's own permissions, one entry each;
\* it has no classification column.
C9_GroupRowIsCodenames ==
    resp.op = "group_row" =>
        /\ DOMAIN resp.row = {"name", "group_app_permissions"}
        /\ resp.row["name"].t = "str"
        /\ resp.row["group_app_permissions"].t = "list"
        /\ Elems(resp.row["group_app_permissions"].v) = {p.codename : p \in group_permissions}
        /\ Len(resp.row["group_app_permissions"].v) = Cardinality(group_permissions)

C9_Witness ==
    /\ resp.op = "group_row"
    /\ Cardinality(group_permissions) >= 2
    /\ classifiablePermissions(LIQUID_APPS) \subseteq get_group_permissions
    /\ classifiablePermissions(LIQUID_APPS) # {}

PermissionFields == {"permissions", "user_permissions"}

\* C4: the codename list of the filter has exactly one entry 'use_<id>' for
\* each enabled app and none for a disabled one, does not change when an
\* app's adminOnly flag is flipped, and no permission of a disabled app is
\* among the candidates of a permission field.
C4_AssignableIsEnabled ==
    resp.op = "formfield_for_manytomany" =>
        /\ Elems(resp.codenames) = enabledCodenames(LIQUID_APPS)
        /\ Len(resp.codenames) = Cardinality({i \in DOMAIN LIQUID_APPS : LIQUID_APPS[i].enabled})
        /\ \A i \in DOMAIN LIQUID_APPS :
              assignableCodenames(flipAdminOnly(LIQUID_APPS, i)) = resp.codenames
        /\ resp.name \in PermissionFields =>
              /\ "queryset" \in DOMAIN resp.super_kwargs
              /\ \A p \in resp.super_kwargs["queryset"] :
                 \A i \in DOMAIN LIQUID_APPS :
                    ~LIQUID_APPS[i].enabled => p.codename # use_ \o LIQUID_APPS[i].id

C4_Witness ==
    /\ resp.op = "formfield_for_manytomany"
    /\ resp.name \in PermissionFields
    /\ \E i, j \in DOMAIN LIQUID_APPS :
          /\ LIQUID_APPS[i].enabled /\ LIQUID_APPS[i].adminOnly
          /\ ~LIQUID_APPS[j].enabled
          /\ "queryset" \in DOMAIN resp.kwargs
          /\ \E p \in resp.kwargs["queryset"] : p.codename = use_ \o LIQUID_APPS[j].id
          /\ \E p \in resp.super_kwargs["queryset"] : p.codename = use_ \o LIQUID_APPS[i].id

\* C6: a permission field of the user form or of the group form gets the
\* incoming candidates restricted to the assignable codenames, the same for
\* both field names; any other many-to-many field keeps its arguments.
C6_PermissionFieldsFiltered ==
    resp.op = "formfield_for_manytomany" =>
        IF resp.name \in PermissionFields
        THEN LET incoming == IF "queryset" \in DOMAIN resp.kwargs
                             THEN resp.kwargs["queryset"] ELSE Permission
             IN  /\ "queryset" \in DOMAIN resp.super_kwargs
                 /\ resp.super_kwargs["queryset"]
                       = {p \in incoming : p.codename \in enabledCodenames(LIQUID_APPS)}
                 /\ \A other \in PermissionFields :
                       formfield_for_manytomany(other, resp.kwargs, LIQUID_APPS)
                           = resp.super_kwargs
        ELSE resp.super_kwargs = resp.kwargs

C6_Witness ==
    /\ resp.op = "formfield_for_manytomany"
    /\ resp.admin = "HooverUserAdmin"
    /\ resp.name = "user_permissions"
    /\ "queryset" \in DOMAIN resp.kwargs
    /\ resp.super_kwargs["queryset"] # {}
    /\ resp.super_kwargs["queryset"] # resp.kwargs["queryset"]

C10_FloorOfMinutesLeft ==
    resp.op = "time_left" =>
        \E n \in resp.now1..resp.now2 :
           IF invitation.expires < n
           THEN resp.out = <<>>
           ELSE resp.out = str((invitation.expires - n) \div SecondsPerMinute)
                               \o <<" ", "m", "i", "n">>

====
